---------------------------- MODULE Spec2Model ----------------------------
(***************************************************************************)
(* Model of src/app.py ("Generative Studio"): the local procedural image   *)
(* generator procedural_mock_image, the shared `random` generator it       *)
(* re-seeds, and the "Generate Images" / "Clear Gallery" handlers that     *)
(* keep the gallery in st.session_state.                                   *)
(*                                                                         *)
(* An image is modelled by the canvas size together with the ordered list  *)
(* of drawing operations applied to it.  Every drawing operation of PIL is *)
(* a deterministic function of its arguments, so two canvases with the     *)
(* same size and the same operation list hold the same pixels.             *)
(*                                                                         *)
(* A seed is an unbounded Python int.  It is kept as a pair (hi, lo) with   *)
(* value hi * 2^16 + lo, so that the values around 2^32 (the largest seed  *)
(* numpy accepts is 2^32 - 1) are represented exactly.                     *)
(***************************************************************************)
EXTENDS Integers, Sequences, FiniteSets, TLC

VARIABLES
    rng,        \* state of the module-level generator of `random`
    lib,        \* whether the installed imaging library blurs an empty layer
    call,       \* the last direct call of procedural_mock_image and its outcome
    gallery,    \* st.session_state["gallery"] (the stored list object)
    hasKey,     \* whether st.session_state has the key "gallery"
    click,      \* outcome of the last button click
    nextId,     \* number of images generated so far (history variable)
    clearMark,  \* value of nextId at the last "Clear Gallery" (history variable)
    clicks      \* number of "Generate Images" clicks so far

vars == <<rng, lib, call, gallery, hasKey, click, nextId, clearMark, clicks>>

---------------------------------------------------------------------------
(* Bounds of the model *)

\* number of states of the modelled generator
RngMod == 4

\* number of "Generate Images" clicks explored
MaxClicks == 2

RngStates == 0 .. (RngMod - 1)

---------------------------------------------------------------------------
(* Program constants *)

MinBlobs == 6
MaxBlobs == 18
MinAlpha == 120
MaxAlpha == 220
MinBlur == 6
MaxBlur == 18
MaxLabel == 120
LocalSize == 1024
MinVariations == 1
MaxVariations == 6
MaxRandSeed == 2147483647

---------------------------------------------------------------------------
(* Seeds: Python ints *)

SeedBase == 2^16

\* the int v (0 <= v < 2^31) as a seed
FromInt(v) == [hi |-> v \div SeedBase, lo |-> v % SeedBase]

\* seed + i
SeedAdd(s, i) ==
    [hi |-> s.hi + ((s.lo + i) \div SeedBase), lo |-> (s.lo + i) % SeedBase]

\* seed > 0
SeedPos(s) == s.hi > 0 \/ s.lo > 0

\* 0 <= seed <= 2^32 - 1: what np.random.seed accepts
FitsUint32(s) == s.hi < SeedBase

\* seed >= 1 and seed <= 2^31 - 1
InRandSeedRange(s) == SeedPos(s) /\ s.hi < SeedBase \div 2

NoSeed == [hi |-> -1, lo |-> 0]

\* Python's `seed and seed > 0`: None and 0 are falsy
SeedGiven(s) == s # NoSeed /\ SeedPos(s)

---------------------------------------------------------------------------
(* The generator of `random` *)

\* random.seed(seed): the state is a fixed function of the seed
SeedState(s) == (5 * s.hi + 3 * s.lo + 1) % RngMod

\* the state after one draw
RngStep(st) == (5 * st + 3) % RngMod

\* the raw output of a draw in state st
RngOut(st) == 37 * st + 11

\* random.randint(a, b) in state st (a <= b); the state moves on by RngStep
RandInt(st, a, b) == a + (RngOut(st) % (b - a + 1))

\* random.choice(seq) in state st
Choice(st, seq) == seq[1 + (RngOut(st) % Len(seq))]

---------------------------------------------------------------------------
(* Palettes *)

PALETTES ==
    [pastel |-> << <<255,179,186>>, <<255,223,186>>, <<255,255,186>>,
                   <<186,255,201>>, <<186,225,255>> >>,
     neon |-> << <<255,0,102>>, <<0,204,255>>, <<255,204,0>>,
                 <<153,0,255>>, <<0,255,153>> >>,
     muted |-> << <<150,120,120>>, <<120,140,130>>, <<130,120,160>>,
                  <<180,170,160>> >>,
     warm |-> << <<255,179,102>>, <<255,120,60>>, <<220,80,40>>,
                 <<180,40,20>> >>,
     cool |-> << <<80,160,200>>, <<50,100,150>>, <<30,60,100>>,
                 <<20,40,70>> >>,
     monochrome |-> << <<30,30,40>>, <<70,70,90>>, <<110,110,130>>,
                       <<160,160,180>> >>]

\* a plausible slip: an unknown name gets no colours instead of the default
PaletteColorsNoDefault(palette) ==
    IF palette \in DOMAIN PALETTES THEN PALETTES[palette] ELSE << >>

\* PALETTES.get(palette, PALETTES["pastel"])
PaletteColors(palette) ==
    IF palette \in DOMAIN PALETTES THEN PALETTES[palette] ELSE PALETTES["pastel"]

---------------------------------------------------------------------------
(* Canvases and drawing operations of PIL *)

NoImage == [size |-> <<0, 0>>, mode |-> "none", ops |-> << >>]

\* a plausible slip: the size tuple given as (h, w)
NewImageSwapped(w, h) == [size |-> <<h, w>>, mode |-> "RGBA", ops |-> << >>]

\* Image.new("RGBA", (w, h), fill): a canvas of that size, nothing drawn on it
NewImage(w, h) == [size |-> <<w, h>>, mode |-> "RGBA", ops |-> << >>]

\* Image.new raises ValueError when a side is negative; an empty canvas is accepted
SizeAccepted(w, h) == w >= 0 /\ h >= 0

\* the canvas after one more drawing operation; the size is that of the canvas
Drawn(img, op) == [img EXCEPT !.ops = Append(@, op)]

\* for i in range(h): draw.line(...): h rows interpolated from colors[0] to colors[-1]
Gradient(img, colors, h) ==
    Drawn(img, [op |-> "gradient", from |-> colors[1], to |-> colors[Len(colors)],
                rows |-> IF h > 0 THEN h ELSE 0])

\* Image.alpha_composite(img, layer): both sizes must match; the result has that size
CanComposite(img, layer) == img.size = layer.size /\ img.mode = layer.mode

AlphaComposite(img, layer) ==
    [size |-> layer.size, mode |-> img.mode, ops |-> Append(img.ops, layer.ops)]

\* range(r, int(r*0.2), -int(r*0.1) if r > 10 else -1): the radii of a blob's ellipses
RECURSIVE EllipseRadii(_, _, _)
EllipseRadii(rr, stop, step) ==
    IF rr <= stop THEN << >> ELSE <<rr>> \o EllipseRadii(rr - step, stop, step)

\* lines 139-142: the concentric ellipses drawn on a blob's layer, outermost first,
\* each filled with the blob's colour at alpha int(alpha * (rr / (r + 1)))
LayerEllipses(rx, ry, r, color, alpha) ==
    LET radii == EllipseRadii(r, r \div 5, IF r > 10 THEN r \div 10 ELSE 1)
    IN  [k \in 1 .. Len(radii) |->
           [bbox |-> <<rx - radii[k], ry - radii[k], rx + radii[k], ry + radii[k]>>,
            fill |-> <<color[1], color[2], color[3], (alpha * radii[k]) \div (r + 1)>>]]

\* what lines 138-144 put on the layer of one blob: the ellipses, then a Gaussian
\* blur of the given radius
BlobOps(rx, ry, r, color, alpha, blur) ==
    [op |-> "layer", ellipses |-> LayerEllipses(rx, ry, r, color, alpha),
     blur |-> blur]

\* prompt_text[:120] + '...' if len(prompt_text) > 120 else prompt_text
LabelText(prompt) ==
    IF Len(prompt) > MaxLabel THEN SubSeq(prompt, 1, MaxLabel) \o <<46, 46, 46>>
    ELSE prompt

\* lines 148-156, the text panel: a filled rectangle and the text, placed from the
\* canvas height.  The text is measured with draw.textsize (line 154), which Pillow
\* has up to 9.5: the model is of the program run with such a Pillow.
Label(img, prompt, h) ==
    Drawn(img, [op |-> "label", text |-> LabelText(prompt), bottom |-> h - 10])

\* img.convert("RGB")
ConvertRGB(img) == [img EXCEPT !.mode = "RGB"]

---------------------------------------------------------------------------
(* procedural_mock_image *)

\* a plausible slip: the generator is left as the previous call left it
SeedGeneratorsKeep(st, ent, seed) == [rng |-> st, ok |-> TRUE]

\* lines 96-101: random.seed(seed); np.random.seed(seed) for a seed > 0,
\* else both seeded from the system's entropy (ent).  np.random.seed raises
\* ValueError for a seed above 2^32 - 1, after random.seed has run.
SeedGenerators(st, ent, seed) ==
    IF SeedGiven(seed)
    THEN [rng |-> SeedState(seed), ok |-> FitsUint32(seed)]
    ELSE [rng |-> ent, ok |-> TRUE]

\* the state of the generator after six draws, tabulated
RngStep6 ==
    [st \in RngStates |->
        RngStep(RngStep(RngStep(RngStep(RngStep(RngStep(st))))))]

\* the state of the generator after n draws
RECURSIVE RngAfter(_, _)
RngAfter(st, n) ==
    IF n = 0 THEN st
    ELSE IF n >= 6 THEN RngAfter(RngStep6[st], n - 6)
    ELSE RngAfter(RngStep(st), n - 1)

\* one pass of the blob loop, lines 131-144: the six values of a blob (rx, ry, r,
\* colour, alpha, blur radius) are drawn, in that order, from the generator;
\* a = <<generator state, w, h, colors>>.
\* The blur radius, random.uniform(6, 18), is kept to whole numbers.
Blob[a \in RngStates \X Int \X Int \X Seq(Int \X Int \X Int)] ==
    BlobOps(RandInt(a[1], (5 * a[2]) \div 100, (95 * a[2]) \div 100),
            RandInt(RngAfter(a[1], 1), (5 * a[3]) \div 100, (95 * a[3]) \div 100),
            RandInt(RngAfter(a[1], 2),
                    (6 * (IF a[2] < a[3] THEN a[2] ELSE a[3])) \div 100,
                    (22 * (IF a[2] < a[3] THEN a[2] ELSE a[3])) \div 100),
            Choice(RngAfter(a[1], 3), a[4]),
            RandInt(RngAfter(a[1], 4), MinAlpha, MaxAlpha),
            RandInt(RngAfter(a[1], 5), MinBlur, MaxBlur))

\* the k-th blob of a loop that the generator enters in state st
KthBlob(st, k, w, h, colors) == Blob[<<RngAfter(st, 6 * (k - 1)), w, h, colors>>]

\* the blob loop, lines 130-145: n blobs, six draws each, the generator in state st
\* on entry; each blob is drawn on a new layer NewImage(w, h), which is blurred and
\* composited onto the canvas.  sizes: the canvas size after each step so far.
\* A pass fails when the library refuses to blur an empty layer (blurEmpty false)
\* or the layer does not match the canvas; the first pass is then the one to fail.
DrawBlobs(st, n, img, w, h, colors, blurEmpty, sizes) ==
    IF n > 0 /\ (((w = 0 \/ h = 0) /\ ~blurEmpty) \/ ~CanComposite(img, NewImage(w, h)))
    THEN [ok |-> FALSE, rng |-> RngAfter(st, 6), img |-> img, sizes |-> sizes]
    ELSE [ok |-> TRUE, rng |-> RngAfter(st, 6 * n),
          img |-> [size |-> IF n = 0 THEN img.size
                            ELSE AlphaComposite(img, NewImage(w, h)).size,
                   mode |-> img.mode,
                   ops |-> img.ops \o [k \in 1 .. n |-> KthBlob(st, k, w, h, colors)]],
          sizes |-> sizes \o [k \in 1 .. n |-> AlphaComposite(img, NewImage(w, h)).size]]

Failed(err, st, stage, colors, sizes) ==
    [status |-> "error", error |-> err, image |-> NoImage, rng |-> st,
     stage |-> stage, colors |-> colors, sizes |-> sizes]

\* lines 147-158: the label, then the conversion to RGB
Finish(lab, st, colors, sizes) ==
    [status |-> "ok", error |-> "none", image |-> ConvertRGB(lab), rng |-> st,
     stage |-> "done", colors |-> colors,
     sizes |-> sizes \o <<lab.size, ConvertRGB(lab).size>>]

\* the outcome of the blob loop, then lines 147-158
AfterBlobs(bl, prompt, h, colors) ==
    IF ~bl.ok THEN Failed("LibraryError", bl.rng, "blobs", colors, bl.sizes)
    ELSE Finish(Label(bl.img, prompt, h), bl.rng, colors, bl.sizes)

\* lines 119-129: the gradient on the new canvas and the number of blobs
Paint(img0, st, blurEmpty, prompt, w, h, colors) ==
    AfterBlobs(DrawBlobs(RngStep(st), RandInt(st, MinBlobs, MaxBlobs),
                         Gradient(img0, colors, h), w, h, colors, blurEmpty,
                         <<img0.size, Gradient(img0, colors, h).size>>),
               prompt, h, colors)

\* lines 104-116, the generators seeded (sd): the canvas and the palette
Seeded(sd, blurEmpty, prompt, w, h, colors) ==
    IF ~sd.ok THEN Failed("ValueError", sd.rng, "seed", << >>, << >>)
    ELSE IF ~SizeAccepted(w, h) THEN Failed("ValueError", sd.rng, "new", << >>, << >>)
    ELSE IF Len(colors) = 0
    THEN Failed("IndexError", sd.rng, "palette", colors, <<NewImage(w, h).size>>)
    ELSE Paint(NewImage(w, h), sd.rng, blurEmpty, prompt, w, h, colors)

\* procedural_mock_image(prompt_text, w, h, seed, palette), called with the shared
\* generator in state st.  The result carries the generator's state on return.
Render(st, ent, blurEmpty, prompt, w, h, seed, palette) ==
    Seeded(SeedGenerators(st, ent, seed), blurEmpty, prompt, w, h,
           PaletteColors(palette))

\* the number of blob layers composited onto an image
BlobCount(img) == Cardinality({k \in 1 .. Len(img.ops) : img.ops[k].op = "layer"})

---------------------------------------------------------------------------
(* Direct calls of procedural_mock_image *)

ShortPrompt == <<72, 105>>
LongPromptA == [k \in 1 .. (MaxLabel + 1) |-> IF k > MaxLabel THEN 65 ELSE 120]
PromptArgs == {ShortPrompt, LongPromptA}

SizeArgs == {<<LocalSize, LocalSize>>, <<64, 48>>, <<-1, 400>>, <<400, 0>>}

TooBigSeed == [hi |-> SeedBase, lo |-> 0]
SeedArgs == {NoSeed, FromInt(0), FromInt(1), TooBigSeed}

PaletteArgs == {"neon", "sepia"}

NoCall ==
    [made |-> FALSE, prompt |-> << >>, w |-> 0, h |-> 0, seed |-> NoSeed,
     palette |-> "", before |-> 0,
     res |-> Failed("none", 0, "none", << >>, << >>)]

NoClick ==
    [status |-> "none", n |-> 0, cap |-> 0, count |-> 0, prevLen |-> 0,
     made |-> 0, seed |-> NoSeed, remote |-> FALSE, rng |-> 0]

Init ==
    /\ rng \in RngStates
    /\ lib \in BOOLEAN
    /\ call = NoCall
    /\ gallery = << >>
    /\ hasKey = FALSE
    /\ click = NoClick
    /\ nextId = 0
    /\ clearMark = 0
    /\ clicks = 0

appVars == <<gallery, hasKey, click, nextId, clearMark, clicks>>

\* one call procedural_mock_image(prompt, w, h, seed, palette); the call leaves the
\* shared generator in the state the render ended in.  ent is the entropy that
\* random.seed() reads, which only the unseeded branch does.
Call(prompt, w, h, seed, palette) ==
    \E ent \in IF SeedGiven(seed) THEN {rng} ELSE RngStates :
        /\ call' = [made |-> TRUE, prompt |-> prompt, w |-> w, h |-> h,
                    seed |-> seed, palette |-> palette, before |-> rng,
                    res |-> Render(rng, ent, lib, prompt, w, h, seed, palette)]
        /\ rng' = call'.res.rng
        /\ UNCHANGED <<lib, appVars>>

NextRender ==
    \E prompt \in PromptArgs, sz \in SizeArgs, seed \in SeedArgs,
       palette \in PaletteArgs :
        Call(prompt, sz[1], sz[2], seed, palette)

SpecRender == Init /\ [][NextRender]_vars

---------------------------------------------------------------------------
(* The "Generate Images" and "Clear Gallery" handlers *)

\* a plausible slip: every variation of a seeded click gets the Seed input itself
ThisSeedNoOffset(seed, i, st) ==
    IF SeedPos(seed) THEN seed ELSE FromInt(RandInt(st, 1, MaxRandSeed))

\* line 194: seed + i if seed and seed > 0 else random.randint(1, 2**31 - 1),
\* the shared generator being in state st
ThisSeed(seed, i, st) ==
    IF SeedPos(seed) THEN SeedAdd(seed, i) ELSE FromInt(RandInt(st, 1, MaxRandSeed))

\* the shared generator after line 194: random.randint has taken one draw when
\* the Seed input is 0
AfterThisSeed(seed, st) == IF SeedPos(seed) THEN st ELSE RngStep(st)

\* the image generate_with_openai returns for variation i of a click: decoded from
\* the service's answer, no function of the seed
RemoteImage(i) ==
    [size |-> <<LocalSize, LocalSize>>, mode |-> "RGB",
     ops |-> << [op |-> "remote", answer |-> i] >>]

\* lines 195-205: the image of variation i.  With OpenAI enabled and the request
\* answered (i \notin ins.fails) it is the remote image; when the request fails,
\* generate_with_openai returns [] and the local generator is used, as it is with
\* OpenAI disabled.
Produce(st, ent, blurEmpty, i, ins, this_seed) ==
    IF ins.openai /\ i \notin ins.fails
    THEN [src |-> "openai",
          res |-> [status |-> "ok", error |-> "none", image |-> RemoteImage(i),
                   rng |-> st]]
    ELSE [src |-> "local",
          res |-> Render(st, ent, blurEmpty, ins.prompt, LocalSize, LocalSize,
                         this_seed, ins.palette)]

\* a plausible slip: the oldest entry alone is dropped when the gallery is over its cap
CapGalleryDropOne(gal, cap) ==
    IF Len(gal) > cap THEN SubSeq(gal, 1, Len(gal) - 1) ELSE gal

\* lines 213-214: if len(gallery) > gallery_capacity: gallery = gallery[:gallery_capacity]
CapGallery(gal, cap) == IF Len(gal) > cap THEN SubSeq(gal, 1, cap) ELSE gal

\* lines 207-215 for a produced image p: the entry is inserted at the front of the
\* list `gallery` names; the list stored in the session state sees the insert while
\* `gallery` still names it (c.aliased); capping rebinds `gallery` to a new list.
Store(c, i, ins, this_seed, p) ==
    IF p.res.status # "ok"
    THEN [c EXCEPT !.ok = FALSE, !.rng = p.res.rng]
    ELSE [rng |-> p.res.rng,
          gal |-> CapGallery(<<[id |-> c.nextId, src |-> p.src, image |-> p.res.image,
                                input |-> ins.seed, var |-> i,
                                meta |-> [prompt |-> ins.prompt, seed |-> this_seed,
                                          palette |-> ins.palette]]>> \o c.gal,
                             ins.cap),
          stored |-> IF c.aliased
                     THEN <<[id |-> c.nextId, src |-> p.src, image |-> p.res.image,
                             input |-> ins.seed, var |-> i,
                             meta |-> [prompt |-> ins.prompt, seed |-> this_seed,
                                       palette |-> ins.palette]]>> \o c.gal
                     ELSE c.stored,
          aliased |-> c.aliased /\ Len(c.gal) + 1 <= ins.cap,
          count |-> c.count + 1,
          nextId |-> c.nextId + 1,
          ok |-> TRUE]

\* one pass of the loop of line 193, for variation i.  (The CHOOSE over a one-element
\* set names the produced image p, so that it is computed once.)
Variation(c, i, ins, ent, blurEmpty) ==
    CHOOSE r \in {Store(c, i, ins, ThisSeed(ins.seed, i, c.rng), p) :
                    p \in {Produce(AfterThisSeed(ins.seed, c.rng), ent, blurEmpty, i,
                                   ins, ThisSeed(ins.seed, i, c.rng))}} : TRUE

\* the loop of line 193 from variation i on; an exception ends it (c.ok false)
RECURSIVE Variations(_, _, _, _, _)
Variations(c, i, ins, ent, blurEmpty) ==
    IF i >= ins.n \/ ~c.ok THEN c
    ELSE CHOOSE r \in {Variations(x, i + 1, ins, ent, blurEmpty) :
                         x \in {Variation(c, i, ins, ent, blurEmpty)}} : TRUE

\* lines 187-188: gallery = st.session_state.get("gallery", []); new_images = []
LoopStart(st, stored, has, id) ==
    [rng |-> st, gal |-> stored, stored |-> stored, aliased |-> has, count |-> 0,
     nextId |-> id, ok |-> TRUE]

\* what the click leaves in the session state: line 217 stores the list `gallery`
\* names; after an exception the stored list is as the inserts left it
ClickGallery(c) == IF c.ok THEN c.gal ELSE c.stored

\* the outcome of a click whose loop ended in c
ClickOutcome(c, ins, prevLen, id) ==
    [status |-> IF c.ok THEN "ok" ELSE "error", n |-> ins.n, cap |-> ins.cap,
     count |-> c.count, prevLen |-> prevLen, made |-> c.nextId - id,
     seed |-> ins.seed, remote |-> ins.openai, rng |-> c.rng]

\* whether a render of the click can reseed from entropy: some variation, in some
\* state of the shared generator, gets no positive seed
EntropyConsulted(ins) ==
    \E i \in 0 .. (ins.n - 1), st \in RngStates : ~SeedGiven(ThisSeed(ins.seed, i, st))

\* a click on "Generate Images", lines 184-218, with the widgets' values ins
Generate(ins) ==
    /\ clicks < MaxClicks
    /\ \E ent \in IF EntropyConsulted(ins) THEN RngStates ELSE {rng} :
        /\ gallery' = ClickGallery(Variations(LoopStart(rng, gallery, hasKey, nextId),
                                              0, ins, ent, lib))
        /\ click' = ClickOutcome(Variations(LoopStart(rng, gallery, hasKey, nextId),
                                            0, ins, ent, lib),
                                 ins, Len(gallery), nextId)
    /\ rng' = click'.rng
    /\ nextId' = nextId + click'.made
    /\ hasKey' = (hasKey \/ click'.status = "ok")
    /\ clicks' = clicks + 1
    /\ UNCHANGED <<lib, call, clearMark>>

\* a click on "Clear Gallery", lines 221-223
Clear ==
    /\ gallery' = << >>
    /\ hasKey' = TRUE
    /\ click' = [NoClick EXCEPT !.status = "cleared"]
    /\ clearMark' = nextId
    /\ UNCHANGED <<rng, lib, call, nextId, clicks>>

\* the widgets' values of the clicks explored
NearLimitSeed == [hi |-> SeedBase - 1, lo |-> SeedBase - 2]

ClickConfigs ==
    { [seed |-> FromInt(1), cap |-> 3, openai |-> FALSE, fails |-> {},
       prompt |-> ShortPrompt, palette |-> "neon"],
      [seed |-> FromInt(0), cap |-> 4, openai |-> FALSE, fails |-> {},
       prompt |-> LongPromptA, palette |-> "pastel"],
      [seed |-> NearLimitSeed, cap |-> 3, openai |-> FALSE, fails |-> {},
       prompt |-> ShortPrompt, palette |-> "neon"],
      [seed |-> FromInt(0), cap |-> 3, openai |-> TRUE, fails |-> {1, 3, 5},
       prompt |-> ShortPrompt, palette |-> "sepia"] }

Next ==
    \/ \E cfg \in ClickConfigs, n \in MinVariations .. MaxVariations :
          Generate([seed |-> cfg.seed, n |-> n, cap |-> cfg.cap,
                    openai |-> cfg.openai, fails |-> cfg.fails,
                    prompt |-> cfg.prompt, palette |-> cfg.palette])
    \/ Clear

Spec == Init /\ [][Next]_vars

---------------------------------------------------------------------------
(* Properties of procedural_mock_image, checked under SpecRender *)

\* C1: a call with a seed > 0 gives the same outcome and the same image whatever
\* state earlier calls left the shared generator in: the recorded result of the
\* last call is the result of the same call made from any generator state.
C1_SeededRenderDeterministic ==
    (call.made /\ SeedGiven(call.seed)) =>
        \A st \in RngStates, ent \in RngStates :
            LET again == Render(st, ent, lib, call.prompt, call.w, call.h,
                                call.seed, call.palette)
            IN  /\ again.status = call.res.status
                /\ again.image = call.res.image

\* a seeded call that returned an image, made when the generator was in another
\* state than the one the seed gives
C1_Witness ==
    /\ call.made /\ SeedGiven(call.seed) /\ call.res.status = "ok"
    /\ call.before # SeedState(call.seed)
    /\ BlobCount(call.res.image) >= MinBlobs

\* The number of blobs is no argument of the call (the shape_count of C2): it is
\* drawn from the generator, so every returned image carries between MinBlobs and
\* MaxBlobs blob layers, and the label after them.
BlobCountInRange ==
    (call.made /\ call.res.status = "ok") =>
        /\ BlobCount(call.res.image) \in MinBlobs .. MaxBlobs
        /\ call.res.image.ops[Len(call.res.image.ops)].op = "label"

\* C3: a call with width <= 0 or height <= 0 fails with InvalidDimension before any
\* drawing step and returns no image.
C3_InvalidDimensionFailsFast ==
    (call.made /\ (call.w <= 0 \/ call.h <= 0)) =>
        /\ call.res.status = "error"
        /\ call.res.error = "InvalidDimension"
        /\ call.res.stage \in {"seed", "new"}
        /\ call.res.image = NoImage

\* C4: a call leaves the shared generator as it found it.
C4_GeneratorUntouched == call.made => rng = call.before

\* C5: for positive width and height the canvas has size (w, h) after every step
\* (new canvas, gradient, each composited blob layer, label, conversion), and so
\* has the returned image.
C5_SizeKept ==
    (call.made /\ call.w > 0 /\ call.h > 0) =>
        /\ \A k \in 1 .. Len(call.res.sizes) : call.res.sizes[k] = <<call.w, call.h>>
        /\ call.res.status = "ok" =>
              /\ call.res.image.size = <<call.w, call.h>>
              /\ Len(call.res.sizes) = BlobCount(call.res.image) + 4

\* a returned image that is not square, with its blob layers
C5_Witness ==
    /\ call.made /\ call.res.status = "ok" /\ call.w > 0 /\ call.h > 0
    /\ call.w # call.h
    /\ BlobCount(call.res.image) >= MinBlobs

\* C7: whenever the call gets as far as the palette, the colour list is not empty,
\* also for a name that is none of the six palettes; the gradient has taken its
\* first and last colour and no lookup has failed.
C7_PaletteNeverEmpty ==
    (call.made /\ call.res.stage \notin {"seed", "new"}) =>
        /\ Len(call.res.colors) >= 1
        /\ call.res.error # "IndexError"
        /\ call.res.status = "ok" =>
              /\ call.res.image.ops[1].from = call.res.colors[1]
              /\ call.res.image.ops[1].to = call.res.colors[Len(call.res.colors)]

\* a returned image for a palette name that is none of the six
C7_Witness ==
    /\ call.made /\ call.res.status = "ok"
    /\ call.palette \notin DOMAIN PALETTES
    /\ call.res.colors = PALETTES["pastel"]

---------------------------------------------------------------------------
(* Properties of the gallery, checked under Spec *)

Min(a, b) == IF a <= b THEN a ELSE b

\* C6: right after a click on "Generate Images" has completed, the stored gallery
\* holds at most the click's gallery_capacity entries, and its length is the lesser
\* of (length before the click + n_variations) and gallery_capacity.
C6_GalleryWithinCapacity ==
    click.status = "ok" =>
        /\ Len(gallery) <= click.cap
        /\ Len(gallery) = Min(click.prevLen + click.n, click.cap)

\* a completed click that found a gallery longer than its capacity
C6_Witness ==
    /\ click.status = "ok"
    /\ click.prevLen > click.cap
    /\ Len(gallery) = click.cap

\* C8: every click on "Generate Images" runs to its end, has inserted exactly
\* n_variations entries and reports n_variations images, with OpenAI on or off.
C8_EveryClickMakesAllVariations ==
    click.status \in {"ok", "error"} =>
        /\ click.status = "ok"
        /\ click.made = click.n
        /\ click.count = click.n

\* the widgets' values of a click that generates the entry e again: the seed e
\* records as Seed input, e's prompt and palette, one variation, OpenAI off
Again(e) ==
    [seed |-> e.meta.seed, n |-> 1, cap |-> MaxVariations, openai |-> FALSE,
     fails |-> {}, prompt |-> e.meta.prompt, palette |-> e.meta.palette]

\* what variation 0 of that click produces, the shared generator being in state st
\* and the entropy giving ent; an exception gives no image
Regenerated(e, st, ent) ==
    Produce(AfterThisSeed(e.meta.seed, st), ent, lib, 0, Again(e),
            ThisSeed(e.meta.seed, 0, st)).res.image

\* C9: every gallery entry made by the local generator records a seed >= 1 that the
\* generator takes as a seed: the Seed input plus the variation's index when the
\* input is > 0, a value in 1..2^31-1 when it is 0; and variation 0 of a click
\* with the recorded seed, prompt and palette gives the entry's image, whatever
\* state the shared generator is in.
C9_LocalEntriesReproducible ==
    \A k \in 1 .. Len(gallery) :
        gallery[k].src = "local" =>
            /\ SeedGiven(gallery[k].meta.seed)
            /\ IF SeedPos(gallery[k].input)
               THEN gallery[k].meta.seed = SeedAdd(gallery[k].input, gallery[k].var)
               ELSE InRandSeedRange(gallery[k].meta.seed)
            /\ \A st \in RngStates :
                  \A ent \in IF EntropyConsulted(Again(gallery[k]))
                             THEN RngStates ELSE {st} :
                      Regenerated(gallery[k], st, ent) = gallery[k].image

\* a gallery holding a local entry with a random seed and a later variation of a
\* click with a Seed input > 0
C9_Witness ==
    /\ \E k \in 1 .. Len(gallery) :
          gallery[k].src = "local" /\ ~SeedPos(gallery[k].input)
    /\ \E k \in 1 .. Len(gallery) :
          gallery[k].src = "local" /\ SeedPos(gallery[k].input) /\ gallery[k].var >= 1

\* C10: the stored gallery lists the most recently generated images, newest first
\* (its j-th entry is the j-th last image generated), and holds no image generated
\* before the last click on "Clear Gallery".
C10_NewestFirstOldestEvicted ==
    \A j \in 1 .. Len(gallery) :
        /\ gallery[j].id = nextId - j
        /\ gallery[j].id >= clearMark

===========================================================================
